---- MODULE Spec2Model ----
(***************************************************************************)
(* Model of EnergyConsumptionApp (src/EnergyConsumptionApp.py): a          *)
(* Streamlit page that loads two pickled regression models and a pickled   *)
(* feature-name list, shows a form, and on submit assembles a one-row      *)
(* DataFrame, projects it onto the feature names and renders both models'  *)
(* predictions.                                                            *)
(*                                                                         *)
(* Floats of the form (slider values, 0.0) are held in hundredths:         *)
(* 240.0 is 24000, 4.63 is 463.  Calendar fields are plain integers.       *)
(* A one-row DataFrame is the sequence of its columns, each a              *)
(* [name, value] record: column labels are ordered and may repeat.         *)
(* An attribute or artifact that may be absent is a sequence of length     *)
(* 0 (absent) or 1 (present).                                              *)
(***************************************************************************)
EXTENDS Integers, Sequences, FiniteSets, TLC

VARIABLES
    disk,           \* the three artifact files: what joblib.load finds
    pc,             \* position in main(): __init__, load_resources, run()
    linear_model,   \* self.linear_model  (<<>> while the attribute is unset)
    ridge_model,    \* self.ridge_model
    feature_names,  \* self.feature_names
    form,           \* the widgets' values of this run, submit_button included
    input_data,     \* the local input_data of run() (<<>> before line 118)
    assembled,      \* history: input_data as built at lines 118-131
    linear_pred,    \* the local linear_pred (<<>> until line 143 returns)
    ridge_pred,     \* the local ridge_pred
    trace,          \* this run's loads, predict calls and rendered elements
    runs,           \* executions of main() so far in the session
    seen            \* history: (run, form, predictions) of every rendered result

vars == <<disk, pc, linear_model, ridge_model, feature_names, form, input_data,
          assembled, linear_pred, ridge_pred, trace, runs, seen>>

----------------------------------------------------------------------------
(* Bounds of the model *)

\* the date picker offers FirstYear .. FirstYear + YearSpan
YearSpan == 1
\* longest feature-name list drawn for the projection
MaxOrderLen == 3
\* script executions (the first run and the reruns) in one session
MaxRuns == 3

(* Program constants *)

VoltageMin == 22000
VoltageMax == 25500
VoltageDefault == 24000
IntensityMin == 0
IntensityMax == 2000
IntensityDefault == 463
SubMeteringMin == 0
SubMeteringMax == 5000
SubMetering1Default == 112
SubMetering2Default == 130
SubMetering3Default == 646
ReactivePowerConstant == 0
FirstYear == 2024
DefaultMonth == 11
DefaultDay == 28
DefaultHour == 12
DefaultMinute == 0

----------------------------------------------------------------------------
(* Sequences *)

Range(s) == {s[i] : i \in DOMAIN s}

NoRepeat(s) == \A i, j \in DOMAIN s : s[i] = s[j] => i = j

RECURSIVE SeqsUpTo(_, _)
SeqsUpTo(S, n) ==
    IF n = 0 THEN {<<>>}
    ELSE LET shorter == SeqsUpTo(S, n - 1)
         IN  shorter \cup {Append(s, x) : s \in shorter, x \in S}

----------------------------------------------------------------------------
(* The calendar: pd.Timestamp.combine(date, time) and its components *)

IsLeap(y) == (y % 4 = 0 /\ y % 100 # 0) \/ y % 400 = 0

DaysInMonth(y, m) ==
    IF m = 2 THEN (IF IsLeap(y) THEN 29 ELSE 28)
    ELSE IF m \in {4, 6, 9, 11} THEN 30 ELSE 31

Dates ==
    {d \in [year : FirstYear .. FirstYear + YearSpan, month : 1 .. 12, day : 1 .. 31] :
        d.day <= DaysInMonth(d.year, d.month)}

Times == [hour : {0, DefaultHour, 23}, minute : {DefaultMinute, 59}]

Combine(date, time) ==
    [year |-> date.year, month |-> date.month, day |-> date.day,
     hour |-> time.hour, minute |-> time.minute]

\* Timestamp.weekday(): pandas' dayofweek(y, m, d), 0 = Monday
SakamotoArr == <<0, 3, 2, 5, 0, 3, 5, 1, 4, 6, 2, 4>>

SakamotoDay(ts) ==
    LET y == IF ts.month < 3 THEN ts.year - 1 ELSE ts.year
    IN  (y + (y \div 4) - (y \div 100) + (y \div 400)
           + SakamotoArr[ts.month] + ts.day) % 7

WeekdaySundayFirst(ts) == SakamotoDay(ts)

Weekday(ts) == (SakamotoDay(ts) + 6) % 7

----------------------------------------------------------------------------
(* The form (lines 98-107) *)

Sliders ==
    [voltage : {VoltageMin, VoltageDefault, VoltageMax},
     global_intensity : {IntensityMin, IntensityDefault, IntensityMax},
     sub_metering_1 : {SubMetering1Default},
     sub_metering_2 : {SubMetering2Default, SubMeteringMax},
     sub_metering_3 : {SubMetering3Default}]

FormOf(s, d, t, b) ==
    [voltage |-> s.voltage, global_intensity |-> s.global_intensity,
     sub_metering_1 |-> s.sub_metering_1, sub_metering_2 |-> s.sub_metering_2,
     sub_metering_3 |-> s.sub_metering_3, date |-> d, time |-> t,
     submit_button |-> b]

DefaultSliders ==
    [voltage |-> VoltageDefault, global_intensity |-> IntensityDefault,
     sub_metering_1 |-> SubMetering1Default, sub_metering_2 |-> SubMetering2Default,
     sub_metering_3 |-> SubMetering3Default]

DefaultDate == [year |-> FirstYear, month |-> DefaultMonth, day |-> DefaultDay]

DefaultTime == [hour |-> DefaultHour, minute |-> DefaultMinute]

\* the form before any widget was touched
BlankForm == FormOf(DefaultSliders, DefaultDate, DefaultTime, FALSE)

\* the forms drawn for the assembler: every slider choice, date and time
AllForms == {FormOf(s, d, t, TRUE) : s \in Sliders, d \in Dates, t \in Times}

----------------------------------------------------------------------------
(* Lines 110-131: the record assembled on submit *)

Col(n, v) == [name |-> n, value |-> v]

TwelveKeys ==
    <<"Global_reactive_power", "Voltage", "Global_intensity", "Sub_metering_1",
      "Sub_metering_2", "Sub_metering_3", "Year", "Month", "Day", "Hour",
      "Minute", "Weekday">>

AssembleEchoReactive(f) ==
    LET ts == Combine(f.date, f.time)
    IN  <<Col("Global_reactive_power", f.global_intensity),
          Col("Voltage", f.voltage),
          Col("Global_intensity", f.global_intensity),
          Col("Sub_metering_1", f.sub_metering_1),
          Col("Sub_metering_2", f.sub_metering_2),
          Col("Sub_metering_3", f.sub_metering_3),
          Col("Year", ts.year), Col("Month", ts.month), Col("Day", ts.day),
          Col("Hour", ts.hour), Col("Minute", ts.minute),
          Col("Weekday", Weekday(ts))>>

AssembleRecord(f) ==
    LET date_time == Combine(f.date, f.time)
    IN  <<Col("Global_reactive_power", ReactivePowerConstant),
          Col("Voltage", f.voltage),
          Col("Global_intensity", f.global_intensity),
          Col("Sub_metering_1", f.sub_metering_1),
          Col("Sub_metering_2", f.sub_metering_2),
          Col("Sub_metering_3", f.sub_metering_3),
          Col("Year", date_time.year),
          Col("Month", date_time.month),
          Col("Day", date_time.day),
          Col("Hour", date_time.hour),
          Col("Minute", date_time.minute),
          Col("Weekday", Weekday(date_time))>>

----------------------------------------------------------------------------
(* Line 133: input_data[[col for col in self.feature_names                 *)
(*                        if col in input_data.columns]]                    *)

Columns(df) == {df[i].name : i \in DOMAIN df}

Names(df) == [i \in DOMAIN df |-> df[i].name]

\* the list comprehension: the feature names that are column labels
KeepCols(fn, df) == SelectSeq(fn, LAMBDA c : c \in Columns(df))

\* df[key]: every column labelled key, in the frame's order
GetCols(df, key) == SelectSeq(df, LAMBDA col : col.name = key)

\* df[[k1, k2, ...]]: the columns of each key in turn
RECURSIVE TakeCols(_, _)
TakeCols(df, keys) ==
    IF keys = <<>> THEN <<>>
    ELSE GetCols(df, Head(keys)) \o TakeCols(df, Tail(keys))

ProjectFrameOrder(fn, df) == SelectSeq(df, LAMBDA col : col.name \in Range(fn))

RECURSIVE Reverse(_)
Reverse(s) == IF s = <<>> THEN <<>> ELSE Append(Reverse(Tail(s)), Head(s))

ProjectReversed(fn, df) == Reverse(ProjectFrameOrder(fn, df))

Project(fn, df) == TakeCols(df, KeepCols(fn, df))

----------------------------------------------------------------------------
(* The artifacts: linear_model.pkl, ridge_model.pkl, feature_names.pkl *)

\* A fitted regressor as predict() sees it: the width it was fitted on, its
\* coefficients (one weight for every column), and the kind of exception its
\* predict raises on a vector it cannot take (sklearn raises ValueError; an
\* estimator unpickled under another library version raises other kinds).
Handles(c, b) ==
    [n_features : {Len(TwelveKeys), 2}, coef : {c}, intercept : {b},
     raises : {"ValueError", "TypeError"}]

LinearHandles == Handles(1, 0)

RidgeHandles == Handles(2, 5)

\* the feature-name lists a session's feature_names.pkl may hold
SessionOrders ==
    {TwelveKeys,
     <<"Voltage", "Global_intensity">>,
     <<"Global_active_power", "Global_intensity", "Voltage">>,
     <<"Voltage", "Voltage">>}

Optional(S) == {<<>>} \cup {<<x>> : x \in S}

\* a file that is missing or corrupt is <<>>: joblib.load raises on it
Disks ==
    [linear : Optional(LinearHandles), ridge : Optional(RidgeHandles),
     names : Optional(SessionOrders)]

RECURSIVE SumValues(_)
SumValues(df) == IF df = <<>> THEN 0 ELSE Head(df).value + SumValues(Tail(df))

\* model.predict(input_data)[0]: the value, or the exception raised
Predict(h, X) ==
    IF Len(X) = h.n_features
    THEN [exc |-> "none", value |-> h.intercept + h.coef * SumValues(X)]
    ELSE [exc |-> h.raises, value |-> 0]

----------------------------------------------------------------------------
(* What a run does, in order: loads, predict calls, rendered elements *)

Ev(k) == [kind |-> k, val |-> 0, arg |-> <<>>, exc |-> "none"]

EvVal(k, v) == [kind |-> k, val |-> v, arg |-> <<>>, exc |-> "none"]

EvLoad(k, ok) ==
    [kind |-> k, val |-> 0, arg |-> <<>>, exc |-> IF ok THEN "none" ELSE "Exception"]

EvCall(k, X, r) == [kind |-> k, val |-> r.value, arg |-> X, exc |-> r.exc]

Kinds(k) == {i \in DOMAIN trace : trace[i].kind = k}

Shown(k) == Kinds(k) # {}

LoadKinds == {"load_linear", "load_ridge", "load_names"}

SessionForms ==
    {FormOf(s, d, t, b) :
        s \in {DefaultSliders, [DefaultSliders EXCEPT !.voltage = VoltageMax]},
        d \in {DefaultDate, [DefaultDate EXCEPT !.day = 1]},
        t \in {DefaultTime},
        b \in BOOLEAN}

----------------------------------------------------------------------------
(* main(): EnergyConsumptionApp() then app.run() *)

Init ==
    /\ disk \in Disks
    /\ pc = "start"
    /\ linear_model = <<>>
    /\ ridge_model = <<>>
    /\ feature_names = <<>>
    /\ form = BlankForm
    /\ input_data = <<>>
    /\ assembled = <<>>
    /\ linear_pred = <<>>
    /\ ridge_pred = <<>>
    /\ trace = <<>>
    /\ runs = 1
    /\ seen = {}

\* __init__ up to load_resources: set_page_config and setup_page
SetupPage ==
    /\ pc = "start"
    /\ trace' = trace \o <<Ev("style")>>
    /\ pc' = "load"
    /\ UNCHANGED <<disk, linear_model, ridge_model, feature_names, form,
                   input_data, assembled, linear_pred, ridge_pred, runs, seen>>

\* how many joblib.load calls return before the first one raises
LoadedCount ==
    IF disk.linear = <<>> THEN 0
    ELSE IF disk.ridge = <<>> THEN 1
    ELSE IF disk.names = <<>> THEN 2 ELSE 3

\* a variant that gives every artifact its own try block
LoadResourcesEachTried ==
    /\ pc = "load"
    /\ linear_model' = disk.linear
    /\ ridge_model' = disk.ridge
    /\ feature_names' = disk.names
    /\ trace' = trace \o
          <<EvLoad("load_linear", disk.linear # <<>>),
            EvLoad("load_ridge", disk.ridge # <<>>),
            EvLoad("load_names", disk.names # <<>>),
            IF LoadedCount = 3 THEN Ev("sidebar_success") ELSE Ev("sidebar_error")>>
    /\ pc' = "form"
    /\ UNCHANGED <<disk, form, input_data, assembled, linear_pred, ridge_pred,
                   runs, seen>>

\* load_resources: the three loads in one try; the first failure skips the rest
LoadResources ==
    /\ pc = "load"
    /\ linear_model' = IF LoadedCount >= 1 THEN disk.linear ELSE linear_model
    /\ ridge_model' = IF LoadedCount >= 2 THEN disk.ridge ELSE ridge_model
    /\ feature_names' = IF LoadedCount >= 3 THEN disk.names ELSE feature_names
    /\ trace' = trace \o
          (CASE LoadedCount = 0 ->
                  <<EvLoad("load_linear", FALSE), Ev("sidebar_error")>>
             [] LoadedCount = 1 ->
                  <<EvLoad("load_linear", TRUE), EvLoad("load_ridge", FALSE),
                    Ev("sidebar_error")>>
             [] LoadedCount = 2 ->
                  <<EvLoad("load_linear", TRUE), EvLoad("load_ridge", TRUE),
                    EvLoad("load_names", FALSE), Ev("sidebar_error")>>
             [] OTHER ->
                  <<EvLoad("load_linear", TRUE), EvLoad("load_ridge", TRUE),
                    EvLoad("load_names", TRUE), Ev("sidebar_success")>>)
    /\ pc' = "form"
    /\ UNCHANGED <<disk, form, input_data, assembled, linear_pred, ridge_pred,
                   runs, seen>>

\* a variant without the test of submit_button
ShowFormAlwaysSubmits ==
    /\ pc = "form"
    /\ \E f \in SessionForms : form' = f
    /\ trace' = trace \o <<Ev("header"), Ev("form")>>
    /\ pc' = "assemble"
    /\ UNCHANGED <<disk, linear_model, ridge_model, feature_names, input_data,
                   assembled, linear_pred, ridge_pred, runs, seen>>

\* run() up to line 109: header, sidebar form, and the test of submit_button
ShowForm ==
    /\ pc = "form"
    /\ \E f \in SessionForms : form' = f
    /\ trace' = trace \o <<Ev("header"), Ev("form")>>
    /\ pc' = IF form'.submit_button THEN "assemble" ELSE "done"
    /\ UNCHANGED <<disk, linear_model, ridge_model, feature_names, input_data,
                   assembled, linear_pred, ridge_pred, runs, seen>>

\* lines 110-131
Assemble ==
    /\ pc = "assemble"
    /\ input_data' = AssembleRecord(form)
    /\ assembled' = input_data'
    /\ pc' = "project"
    /\ UNCHANGED <<disk, linear_model, ridge_model, feature_names, form,
                   linear_pred, ridge_pred, trace, runs, seen>>

\* a variant that keeps the projected column list on the object
ProjectStepStoresNames ==
    /\ pc = "project"
    /\ IF feature_names = <<>>
       THEN /\ pc' = "crashed"
            /\ UNCHANGED <<input_data, feature_names>>
       ELSE /\ input_data' = Project(feature_names[1], input_data)
            /\ feature_names' = <<Names(input_data')>>
            /\ pc' = "heatmap"
    /\ UNCHANGED <<disk, linear_model, ridge_model, form, assembled,
                   linear_pred, ridge_pred, trace, runs, seen>>

\* line 133: reading self.feature_names raises AttributeError when unset
ProjectStep ==
    /\ pc = "project"
    /\ IF feature_names = <<>>
       THEN /\ pc' = "crashed"
            /\ UNCHANGED input_data
       ELSE /\ input_data' = Project(feature_names[1], input_data)
            /\ pc' = "heatmap"
    /\ UNCHANGED <<disk, linear_model, ridge_model, feature_names, form,
                   assembled, linear_pred, ridge_pred, trace, runs, seen>>

\* lines 136-141
Heatmap ==
    /\ pc = "heatmap"
    /\ trace' = trace \o <<Ev("heatmap"), Ev("prediction_card")>>
    /\ pc' = "predict_linear"
    /\ UNCHANGED <<disk, linear_model, ridge_model, feature_names, form,
                   input_data, assembled, linear_pred, ridge_pred, runs, seen>>

\* a variant that charts the linear prediction as soon as it is known
PredictLinearThenChart ==
    /\ pc = "predict_linear"
    /\ IF linear_model = <<>>
       THEN /\ pc' = "crashed"
            /\ UNCHANGED <<linear_pred, trace>>
       ELSE LET r == Predict(linear_model[1], input_data)
            IN  /\ linear_pred' = IF r.exc = "none" THEN <<r.value>> ELSE linear_pred
                /\ trace' = trace \o
                      (CASE r.exc = "ValueError" ->
                              <<EvCall("predict_linear", input_data, r),
                                Ev("prediction_error")>>
                         [] r.exc = "none" ->
                              <<EvCall("predict_linear", input_data, r),
                                EvVal("chart_linear", r.value)>>
                         [] OTHER -> <<EvCall("predict_linear", input_data, r)>>)
                /\ pc' = CASE r.exc = "none" -> "predict_ridge"
                           [] r.exc = "ValueError" -> "footer"
                           [] OTHER -> "crashed"
    /\ UNCHANGED <<disk, linear_model, ridge_model, feature_names, form,
                   input_data, assembled, ridge_pred, runs, seen>>

\* line 143 inside the try: only ValueError is caught (line 174)
PredictLinear ==
    /\ pc = "predict_linear"
    /\ IF linear_model = <<>>
       THEN /\ pc' = "crashed"
            /\ UNCHANGED <<linear_pred, trace>>
       ELSE LET r == Predict(linear_model[1], input_data)
            IN  /\ linear_pred' = IF r.exc = "none" THEN <<r.value>> ELSE linear_pred
                /\ trace' = trace \o
                      (IF r.exc = "ValueError"
                       THEN <<EvCall("predict_linear", input_data, r),
                              Ev("prediction_error")>>
                       ELSE <<EvCall("predict_linear", input_data, r)>>)
                /\ pc' = CASE r.exc = "none" -> "predict_ridge"
                           [] r.exc = "ValueError" -> "footer"
                           [] OTHER -> "crashed"
    /\ UNCHANGED <<disk, linear_model, ridge_model, feature_names, form,
                   input_data, assembled, ridge_pred, runs, seen>>

\* line 144
PredictRidge ==
    /\ pc = "predict_ridge"
    /\ IF ridge_model = <<>>
       THEN /\ pc' = "crashed"
            /\ UNCHANGED <<ridge_pred, trace>>
       ELSE LET r == Predict(ridge_model[1], input_data)
            IN  /\ ridge_pred' = IF r.exc = "none" THEN <<r.value>> ELSE ridge_pred
                /\ trace' = trace \o
                      (IF r.exc = "ValueError"
                       THEN <<EvCall("predict_ridge", input_data, r),
                              Ev("prediction_error")>>
                       ELSE <<EvCall("predict_ridge", input_data, r)>>)
                /\ pc' = CASE r.exc = "none" -> "render"
                           [] r.exc = "ValueError" -> "footer"
                           [] OTHER -> "crashed"
    /\ UNCHANGED <<disk, linear_model, ridge_model, feature_names, form,
                   input_data, assembled, linear_pred, runs, seen>>

\* lines 147-172: both donut charts, then both text results
RenderPredictions ==
    /\ pc = "render"
    /\ trace' = trace \o
          <<EvVal("chart_linear", linear_pred[1]),
            EvVal("chart_ridge", ridge_pred[1]),
            Ev("results_subheader"),
            EvVal("write_linear", linear_pred[1]),
            EvVal("write_ridge", ridge_pred[1])>>
    /\ seen' = seen \cup
          {[run |-> runs, form |-> form, linear |-> linear_pred[1],
            ridge |-> ridge_pred[1]]}
    /\ pc' = "footer"
    /\ UNCHANGED <<disk, linear_model, ridge_model, feature_names, form,
                   input_data, assembled, linear_pred, ridge_pred, runs>>

\* lines 177-182
Footer ==
    /\ pc = "footer"
    /\ trace' = trace \o <<Ev("separator"), Ev("disclaimer")>>
    /\ pc' = "done"
    /\ UNCHANGED <<disk, linear_model, ridge_model, feature_names, form,
                   input_data, assembled, linear_pred, ridge_pred, runs, seen>>

\* the next interaction executes the script again: a new app object, a new page
Rerun ==
    /\ pc \in {"done", "crashed"}
    /\ runs < MaxRuns
    /\ runs' = runs + 1
    /\ pc' = "start"
    /\ linear_model' = <<>>
    /\ ridge_model' = <<>>
    /\ feature_names' = <<>>
    /\ form' = BlankForm
    /\ input_data' = <<>>
    /\ assembled' = <<>>
    /\ linear_pred' = <<>>
    /\ ridge_pred' = <<>>
    /\ trace' = <<>>
    /\ UNCHANGED <<disk, seen>>

Next ==
    \/ SetupPage
    \/ LoadResources
    \/ ShowForm
    \/ Assemble
    \/ ProjectStep
    \/ Heatmap
    \/ PredictLinear
    \/ PredictRidge
    \/ RenderPredictions
    \/ Footer
    \/ Rerun

Spec == Init /\ [][Next]_vars

----------------------------------------------------------------------------
(* The assembler on its own: every form, assembled once *)

NoDisk == [linear |-> <<>>, ridge |-> <<>>, names |-> <<>>]

InitAssemble ==
    /\ disk = NoDisk
    /\ pc = "a_start"
    /\ linear_model = <<>>
    /\ ridge_model = <<>>
    /\ feature_names = <<>>
    /\ form \in AllForms
    /\ input_data = <<>>
    /\ assembled = <<>>
    /\ linear_pred = <<>>
    /\ ridge_pred = <<>>
    /\ trace = <<>>
    /\ runs = 1
    /\ seen = {}

AssembleOnce ==
    /\ pc = "a_start"
    /\ input_data' = AssembleRecord(form)
    /\ assembled' = input_data'
    /\ pc' = "a_done"
    /\ UNCHANGED <<disk, linear_model, ridge_model, feature_names, form,
                   linear_pred, ridge_pred, trace, runs, seen>>

NextAssemble == AssembleOnce

SpecAssemble == InitAssemble /\ [][NextAssemble]_vars

----------------------------------------------------------------------------
(* The projection on its own: every feature-name list up to MaxOrderLen    *)
(* names and every record over three keys, projected once and once more    *)

ProjOrderNames == {"Voltage", "Global_intensity", "Extra", "Global_active_power"}

ProjRecordNames == {"Voltage", "Global_intensity", "Extra"}

ProjOrders == SeqsUpTo(ProjOrderNames, MaxOrderLen)

\* records are mappings: no key twice
ProjRecords ==
    {r \in SeqsUpTo({Col(n, v) : n \in ProjRecordNames,
                                 v \in {VoltageDefault, IntensityDefault, 100}},
                    Cardinality(ProjRecordNames)) :
        NoRepeat(Names(r))}

InitProject ==
    /\ disk = NoDisk
    /\ pc = "p_start"
    /\ linear_model = <<>>
    /\ ridge_model = <<>>
    /\ \E fo \in ProjOrders : feature_names = <<fo>>
    /\ form = BlankForm
    /\ input_data \in ProjRecords
    /\ assembled = input_data
    /\ linear_pred = <<>>
    /\ ridge_pred = <<>>
    /\ trace = <<>>
    /\ runs = 1
    /\ seen = {}

ProjectOnce ==
    /\ pc = "p_start"
    /\ input_data' = Project(feature_names[1], input_data)
    /\ pc' = "p_once"
    /\ UNCHANGED <<disk, linear_model, ridge_model, feature_names, form,
                   assembled, linear_pred, ridge_pred, trace, runs, seen>>

ProjectAgain ==
    /\ pc = "p_once"
    /\ input_data' = Project(feature_names[1], input_data)
    /\ pc' = "p_twice"
    /\ UNCHANGED <<disk, linear_model, ridge_model, feature_names, form,
                   assembled, linear_pred, ridge_pred, trace, runs, seen>>

NextProject == ProjectOnce \/ ProjectAgain

SpecProject == InitProject /\ [][NextProject]_vars

----------------------------------------------------------------------------
(* Properties *)

ValueOf(df, n) == (CHOOSE c \in Range(df) : c.name = n).value

Count(k) == Cardinality(Kinds(k))

LoadFailed == Shown("sidebar_error")

PredictionShown ==
    \/ Shown("chart_linear") \/ Shown("chart_ridge")
    \/ Shown("write_linear") \/ Shown("write_ridge")

AllLoaded == linear_model # <<>> /\ ridge_model # <<>> /\ feature_names # <<>>

\* the positions inside run()
RunPcs ==
    {"form", "assemble", "project", "heatmap", "predict_linear", "predict_ridge",
     "render", "footer"}

\* C1: when load_resources fails on any artifact the failure is a sidebar
\* notice and a later submission does not crash run(), yields no prediction,
\* and the page is rendered through the disclaimer.
C1_LoadFailureNonFatal ==
    (LoadFailed /\ form.submit_button /\ pc \notin {"start", "load", "form"}) =>
        /\ pc # "crashed"
        /\ ~PredictionShown
        /\ (pc = "done" => Shown("disclaimer"))

\* C2: whenever either model's predict raises on the projected vector,
\* whatever the kind of error, run() shows a prediction error message and
\* does not crash: the separator and the disclaimer are still rendered.
C2_PredictErrorNonFatal ==
    (\E i \in Kinds("predict_linear") \cup Kinds("predict_ridge") :
        trace[i].exc # "none") =>
        /\ pc # "crashed"
        /\ Shown("prediction_error")
        /\ (pc = "done" => Shown("separator") /\ Shown("disclaimer"))

\* C3: the projection yields exactly the FeatureOrder names that are keys of
\* the record, in FeatureOrder's order, each with the record's value; record
\* keys absent from FeatureOrder are dropped and FeatureOrder names absent
\* from the record are skipped.  FeatureOrder [Voltage, Global_intensity] and
\* record {Voltage: 240.0, Global_intensity: 4.63, Extra: 1.0} give
\* [240.0, 4.63].
C3_ProjectionExact ==
    pc = "p_once" =>
        LET fo == feature_names[1]
            wanted == {i \in DOMAIN fo : fo[i] \in Columns(assembled)}
        IN  /\ Len(input_data) = Cardinality(wanted)
            /\ \A j \in DOMAIN input_data :
                 \E i \in wanted :
                    /\ Cardinality({h \in wanted : h < i}) = j - 1
                    /\ input_data[j].name = fo[i]
                    /\ input_data[j].value = ValueOf(assembled, fo[i])
            /\ Columns(input_data) = Columns(assembled) \cap Range(fo)
            /\ Len(input_data) <= Len(fo)
            /\ (/\ fo = <<"Voltage", "Global_intensity">>
                /\ assembled = <<Col("Voltage", 24000), Col("Global_intensity", 463),
                                 Col("Extra", 100)>>)
               => input_data = <<Col("Voltage", 24000), Col("Global_intensity", 463)>>

\* a projection that reorders, drops the key Extra and skips the absent name
C3_Witness ==
    /\ pc = "p_once"
    /\ feature_names = <<<<"Global_intensity", "Global_active_power", "Voltage">>>>
    /\ assembled = <<Col("Voltage", 24000), Col("Global_intensity", 463),
                     Col("Extra", 100)>>
    /\ input_data = <<Col("Global_intensity", 463), Col("Voltage", 24000)>>

\* C4 as stated: for every FeatureOrder and every record, projecting the
\* projected record again through the same FeatureOrder yields the same record.
C4_IdempotentEveryOrder ==
    [][(pc = "p_once" /\ pc' = "p_twice") => input_data' = input_data]_vars

\* C4 as amended: for every FeatureOrder that names no feature twice and every
\* record, projecting the projected record again yields the same record.
C4_IdempotentNoRepeat ==
    [][(pc = "p_once" /\ pc' = "p_twice" /\ NoRepeat(feature_names[1]))
          => input_data' = input_data]_vars

\* a second projection of a record that the first one narrowed and reordered
C4_Witness ==
    /\ pc = "p_twice"
    /\ NoRepeat(feature_names[1])
    /\ Len(input_data) = 2
    /\ Len(assembled) = 3
    /\ Names(input_data) # SelectSeq(Names(assembled), LAMBDA n : n \in Columns(input_data))

\* C5: for all slider values, dates and times the assembled record has exactly
\* the twelve keys and no others, and its Global_reactive_power is 0.0
\* whatever the user entered.
C5_TwelveKeys ==
    pc = "a_done" =>
        /\ Len(assembled) = 12
        /\ NoRepeat(Names(assembled))
        /\ Columns(assembled) =
              {"Global_reactive_power", "Voltage", "Global_intensity",
               "Sub_metering_1", "Sub_metering_2", "Sub_metering_3",
               "Year", "Month", "Day", "Hour", "Minute", "Weekday"}
        /\ ValueOf(assembled, "Global_reactive_power") = 0

\* the record of a form whose sliders are away from their defaults
C5_Witness ==
    /\ pc = "a_done"
    /\ form.voltage = VoltageMin
    /\ form.global_intensity = IntensityMax
    /\ form.sub_metering_2 = SubMeteringMax
    /\ ValueOf(assembled, "Voltage") = VoltageMin
    /\ ValueOf(assembled, "Global_intensity") = IntensityMax

\* the proleptic Gregorian day number of a date; day 1 is a Monday
RefDaysBeforeYear(y) ==
    (y - 1) * 365 + ((y - 1) \div 4) - ((y - 1) \div 100) + ((y - 1) \div 400)

RECURSIVE RefDaysBeforeMonth(_, _)
RefDaysBeforeMonth(y, m) ==
    IF m = 1 THEN 0 ELSE RefDaysBeforeMonth(y, m - 1) + DaysInMonth(y, m - 1)

RefWeekday(d) ==
    (RefDaysBeforeYear(d.year) + RefDaysBeforeMonth(d.year, d.month) + d.day + 6) % 7

\* C6: Year, Month, Day, Hour and Minute of the assembled record are the
\* components of the combined timestamp and Weekday is its day of the week,
\* 0 = Monday to 6 = Sunday; Weekday is in [0,6], Month in [1,12], Hour in
\* [0,23], Minute in [0,59]; 2024-11-28 12:00 gives 2024, 11, 28, 12, 0 and
\* Weekday 3.
C6_CalendarFields ==
    pc = "a_done" =>
        /\ ValueOf(assembled, "Year") = form.date.year
        /\ ValueOf(assembled, "Month") = form.date.month
        /\ ValueOf(assembled, "Day") = form.date.day
        /\ ValueOf(assembled, "Hour") = form.time.hour
        /\ ValueOf(assembled, "Minute") = form.time.minute
        /\ ValueOf(assembled, "Weekday") = RefWeekday(form.date)
        /\ ValueOf(assembled, "Weekday") \in 0 .. 6
        /\ ValueOf(assembled, "Month") \in 1 .. 12
        /\ ValueOf(assembled, "Hour") \in 0 .. 23
        /\ ValueOf(assembled, "Minute") \in 0 .. 59
        /\ (/\ form.date = [year |-> 2024, month |-> 11, day |-> 28]
            /\ form.time = [hour |-> 12, minute |-> 0])
           => /\ ValueOf(assembled, "Year") = 2024
              /\ ValueOf(assembled, "Month") = 11
              /\ ValueOf(assembled, "Day") = 28
              /\ ValueOf(assembled, "Hour") = 12
              /\ ValueOf(assembled, "Minute") = 0
              /\ ValueOf(assembled, "Weekday") = 3

\* the record of Thursday 2024-11-28, 12:00
C6_Witness ==
    /\ pc = "a_done"
    /\ form.date = [year |-> 2024, month |-> 11, day |-> 28]
    /\ form.time = [hour |-> 12, minute |-> 0]
    /\ ValueOf(assembled, "Weekday") = 3

----------------------------------------------------------------------------
(* Properties of a session *)

Before(i, j) == i < j

C8_Stateless ==
    [][/\ (pc \in RunPcs =>
              UNCHANGED <<linear_model, ridge_model, feature_names, disk>>)
       /\ \A a, b \in seen' :
              a.form = b.form => (a.linear = b.linear /\ a.ridge = b.ridge)]_vars

\* runs 1 and 3 rendered predictions for equal inputs, run 2 for other inputs
C8_Witness ==
    \E a, b, c \in seen :
        /\ a.run = 1 /\ b.run = 2 /\ c.run = 3
        /\ a.form = c.form /\ a.form # b.form
        /\ a.linear # b.linear
        /\ a.linear = c.linear /\ a.ridge = c.ridge

\* C9: resources are loaded before the form is shown; no model is invoked
\* unless submit fired; on submit the record is assembled, then projected,
\* then the linear and then the ridge model are each invoked at most once on
\* that same projected vector; charts and text results are rendered only
\* after both invocations returned.
C9_StepOrder ==
    /\ \A i \in Kinds("form") : \E j \in Kinds("load_linear") : Before(j, i)
    /\ \A i \in DOMAIN trace :
          trace[i].kind \in LoadKinds => \A j \in Kinds("form") : Before(i, j)
    /\ (Shown("predict_linear") \/ Shown("predict_ridge")) => form.submit_button
    /\ (pc \in {"assemble", "project", "heatmap", "predict_linear", "predict_ridge",
                "render", "footer"}) => form.submit_button
    /\ pc = "project" => input_data = AssembleRecord(form)
    /\ Count("predict_linear") <= 1
    /\ Count("predict_ridge") <= 1
    /\ \A i \in Kinds("predict_linear") \cup Kinds("predict_ridge") :
          /\ feature_names # <<>>
          /\ assembled = AssembleRecord(form)
          /\ trace[i].arg = Project(feature_names[1], assembled)
    /\ \A i \in Kinds("predict_ridge") :
          \E j \in Kinds("predict_linear") : Before(j, i) /\ trace[j].exc = "none"
    /\ \A i \in DOMAIN trace :
          trace[i].kind \in {"chart_linear", "chart_ridge", "write_linear", "write_ridge"}
          => \E j \in Kinds("predict_linear"), k \in Kinds("predict_ridge") :
                /\ Before(j, k) /\ Before(k, i)
                /\ trace[j].exc = "none" /\ trace[k].exc = "none"

\* a submission rendered to the end: both models invoked on the projection of
\* the assembled record, which the projection narrowed
C9_Witness ==
    /\ pc = "done"
    /\ form.submit_button
    /\ Count("predict_linear") = 1 /\ Count("predict_ridge") = 1
    /\ Shown("write_ridge")
    /\ Len(input_data) < Len(assembled)
    /\ \A i \in Kinds("predict_ridge") : trace[i].arg = input_data

\* C10: if the ridge model's predict raises a ValueError after the linear
\* model's predict succeeded, neither the linear chart nor the linear text
\* result is displayed and exactly one prediction error message is shown; the
\* ridge model is never invoked when the linear model's predict raised.
C10_AllOrNothingOutput ==
    /\ (\E i \in Kinds("predict_ridge") : trace[i].exc = "ValueError") =>
          /\ ~Shown("chart_linear")
          /\ ~Shown("write_linear")
          /\ Count("prediction_error") = 1
    /\ (\E i \in Kinds("predict_linear") : trace[i].exc # "none") =>
          ~Shown("predict_ridge")

\* the linear model predicted, the ridge model raised ValueError, and the run
\* went on to the disclaimer
C10_Witness ==
    /\ pc = "done"
    /\ linear_pred # <<>>
    /\ ridge_pred = <<>>
    /\ \E i \in Kinds("predict_ridge") : trace[i].exc = "ValueError"
    /\ \E i \in Kinds("predict_linear") : trace[i].exc = "none"
    /\ Shown("disclaimer")

====
